---------------------------- MODULE Spec2Model ----------------------------
(***************************************************************************)
(* ClickHouse -> DuckDB incremental sync (src/db_api/clickhouse_to_duckdb.py) *)
(*                                                                         *)
(* A row is abstracted to the value of its watermark column (ts_col); a     *)
(* table is the sequence of its rows.  The source keeps its rows in         *)
(* watermark order (the watermark is non-decreasing with insertion), so     *)
(* "ORDER BY ts_col" returns the source sequence as it stands, rows of      *)
(* equal watermark in the same order on every request.                      *)
(* One action is one request to ClickHouse or one statement on DuckDB       *)
(* together with the Python code that follows it up to the next request;    *)
(* every request to ClickHouse may raise.  TABLES in the source sets        *)
(* sync_by_day to False for its three tables; the single-table              *)
(* specification also runs a table configured with sync_by_day True, the    *)
(* path sync_table dispatches to sync_table_by_day.                         *)
(* The SELECT of get_duckdb_max_timestamp fails when the destination table  *)
(* is absent and not otherwise.  A source type name is the sequence of its  *)
(* tokens.  time.time() is a clock that never goes back; it moves, in steps *)
(* of TickLen seconds, in the progress specification only, and stands at 0  *)
(* in the others.                                                           *)
(***************************************************************************)
EXTENDS Integers, Sequences, FiniteSets, TLC

\* ---------------------------------------------------------------- bounds
MaxSrc == 3          \* rows a source table holds at most
MaxTs == 3           \* largest watermark value
BatchSize == 2       \* batch_size of TABLES (50000 in the source), scaled down
MaxRuns == 2         \* process starts in one behaviour
MaxSrcChanges == 1   \* writes to the source by other clients in one behaviour
MainMaxSrc == 3      \* rows per source table when main() syncs all tables
MaxCols == 2         \* columns of a source table in the schema specification
MaxBatches == 5      \* full batches a source holds in the progress specification
MaxTime == 40        \* the clock stops here (seconds)

\* ------------------------------------------------------------- constants
NumTables == 3       \* entries of TABLES
Attempts == 3        \* range(3) in ch_query_batch
DayLen == 2          \* watermark values per calendar day (toDate)
PrintInterval == 10  \* elapsed - last_print_time >= 10
TickLen == 5         \* seconds the clock moves in one step

None == -1           \* Python None / SQL NULL

TableNames == <<"user_activity_logs", "resources_modal_opens", "not_found_domains">>
Tables == {TableNames[i] : i \in 1..NumTables}

Min(a, b) == IF a < b THEN a ELSE b

\* Sequences over dom of length <= n in non-decreasing order.
SortedSeqs(dom, n) ==
    { s \in UNION {[1..k -> dom] : k \in 0..n} :
        \A i \in 1..(Len(s) - 1) : s[i] <= s[i + 1] }

\* Number of rows of s equal to v.
Count(s, v) == Cardinality({i \in 1..Len(s) : s[i] = v})

\* ------------------------------------------------------- pure functions

\* Python truth value of a fetched column value: None, 0 and '' are false.
Truthy(v) == v # None /\ v # 0

\* Mutant of SqlMax: min() in place of max().
SqlMin(rows) ==
    IF Len(rows) = 0 THEN None
    ELSE CHOOSE m \in {rows[i] : i \in 1..Len(rows)} :
            \A i \in 1..Len(rows) : rows[i] >= m

\* SQL max() over a column: NULL on no rows.
SqlMax(rows) ==
    IF Len(rows) = 0 THEN None
    ELSE CHOOSE m \in {rows[i] : i \in 1..Len(rows)} :
            \A i \in 1..Len(rows) : rows[i] <= m

\* get_duckdb_max_timestamp: the SELECT raises when the table is absent,
\* the bare except swallows it; a false result[0] falls through to None.
get_duckdb_max_timestamp(d) ==
    IF ~d.exists THEN None
    ELSE LET result == SqlMax(d.rows)
         IN  IF Truthy(result) THEN result ELSE None

\* toDate(ts_col) and str(max_ts)[:10]: the calendar day of a watermark.
toDate(ts) == ts \div DayLen

\* Mutant of WhereAfter: >= in place of >.
WhereAfterInclusive(rows, cutoff) ==
    IF cutoff = None THEN rows
    ELSE SelectSeq(rows, LAMBDA ts : ts >= cutoff)

\* WHERE ts_col > 'max_ts' ORDER BY ts_col   (no WHERE when max_ts is None)
WhereAfter(rows, cutoff) ==
    IF cutoff = None THEN rows
    ELSE SelectSeq(rows, LAMBDA ts : ts > cutoff)

\* Mutant of WhereDay: >= in place of =.
WhereDayOnwards(rows, day) == SelectSeq(rows, LAMBDA ts : toDate(ts) >= day)

\* WHERE toDate(ts_col) = 'day'
WhereDay(rows, day) == SelectSeq(rows, LAMBDA ts : toDate(ts) = day)

\* Mutant of LimitOffset: the page starts one row late.
LimitOffsetSkips(rows, limit, off) ==
    SubSeq(rows, off + 2, Min(off + 1 + limit, Len(rows)))

\* LIMIT limit OFFSET offset
LimitOffset(rows, limit, off) ==
    SubSeq(rows, off + 1, Min(off + limit, Len(rows)))

\* SELECT toDate(ts_col) as d, count() as cnt ... WHERE toDate(ts_col) >=
\* toDate('max_ts') GROUP BY d ORDER BY d      (no WHERE when max_ts is None)
DatesQuery(rows, cutoff) ==
    LET days == { toDate(rows[i]) : i \in
                    { j \in 1..Len(rows) :
                        cutoff = None \/ toDate(rows[j]) >= toDate(cutoff) } }
        RECURSIVE Asc(_)
        Asc(S) == IF S = {} THEN <<>>
                  ELSE LET d == CHOOSE x \in S : \A y \in S : x <= y
                       IN  <<[d |-> d, cnt |-> Len(WhereDay(rows, d))]>>
                             \o Asc(S \ {d})
    IN  Asc(days)

\* sum(d['cnt'] for d in dates_result)
RECURSIVE SumCnt(_)
SumCnt(ds) == IF Len(ds) = 0 THEN 0 ELSE Head(ds).cnt + SumCnt(Tail(ds))

\* The query sync_table_by_day builds for one bucket (lines 228-231).
DayQuery(rows, cutoff, day) ==
    IF Truthy(cutoff) /\ day = toDate(cutoff)
    THEN WhereAfter(rows, cutoff)
    ELSE WhereDay(rows, day)

\* Mutant of LoopCond: while True, left only by a break.
LoopCondAlways(off, todo) == TRUE

\* Mutant of LoopCond: <= in place of <.
LoopCondInclusive(off, todo) == off <= todo

\* while offset < rows_to_sync
LoopCond(off, todo) == off < todo

\* Mutant of ShortBatch: a batch shorter than batch_size does not end the loop.
ShortBatchIgnored(batch) == FALSE

\* if len(batch) < batch_size: break
ShortBatch(batch) == Len(batch) < BatchSize

\* Mutant of ShouldPrint: a progress line after every batch.
ShouldPrintAlways(elapsed, last, synced, batch) == TRUE

\* Mutant of ShouldPrint: the interval is counted from the start of the loop.
ShouldPrintSinceStart(elapsed, last, synced, batch) ==
    elapsed >= PrintInterval \/ synced = Len(batch)

\* if elapsed - last_print_time >= 10 or rows_synced == len(batch)
ShouldPrint(elapsed, last, synced, batch) ==
    elapsed - last >= PrintInterval \/ synced = Len(batch)

\* a / b of Python, kept as its two terms: a float when b # 0, and
\* ZeroDivisionError when b = 0 (den = 0 stands for the exception).
Quot(a, b) == [num |-> a, den |-> b]
Zero == Quot(0, 1)
Failed(q) == q.den = 0
Positive(q) == q.num > 0 /\ q.den > 0

\* Mutant of speed: the division is not guarded.
speedUnguarded(rows, elapsed) == Quot(rows, elapsed)

\* speed = rows_synced / elapsed if elapsed > 0 else 0
speed(rows, elapsed) == IF elapsed > 0 THEN Quot(rows, elapsed) ELSE Zero

\* pct = rows_synced / rows_to_sync * 100, of sync_table_offset
pct_offset(rows, todo) == Quot(rows * 100, todo)

\* pct = rows_synced / total_rows * 100 if total_rows > 0 else 100, of
\* sync_table_by_day
pct_by_day(rows, total) == IF total > 0 THEN Quot(rows * 100, total) ELSE Quot(100, 1)

\* eta = (total - rows_synced) / speed if speed > 0 else 0
eta(left, sp) == IF Positive(sp) THEN Quot(left * sp.den, sp.num) ELSE Zero

\* The progress line of sync_table_offset and of sync_table_by_day.
OffsetLine(at, rows, todo, elapsed) ==
    [ at    |-> at,
      rows  |-> rows,
      speed |-> speed(rows, elapsed),
      pct   |-> pct_offset(rows, todo),
      eta   |-> eta(todo - rows, speed(rows, elapsed)) ]

DayLine(at, rows, total, elapsed) ==
    [ at    |-> at,
      rows  |-> rows,
      speed |-> speed(rows, elapsed),
      pct   |-> pct_by_day(rows, total),
      eta   |-> eta(total - rows, speed(rows, elapsed)) ]

LineFailed(line) == Failed(line.speed) \/ Failed(line.pct) \/ Failed(line.eta)

\* Mutant of PrintDay: the line of a bucket is held back until 10 seconds
\* have passed since the line before.
PrintDayThrottled(lines, line) ==
    IF lines = <<>> \/ line.at - lines[Len(lines)].at >= PrintInterval
    THEN Append(lines, line)
    ELSE lines

\* print(...) at the end of the loop body of sync_table_by_day: one line per
\* bucket.
PrintDay(lines, line) == Append(lines, line)

\* Mutant of table_created: the table is created before every loop.
table_createdNever(m) == FALSE

\* table_created = max_ts is not None
table_created(m) == m # None

\* Mutant of LastAttempt: the second failure is already re-raised.
LastAttemptEarly(a) == a = Attempts - 2

\* if attempt == 2: raise
LastAttempt(a) == a = Attempts - 1

\* ------------------------------------------------- schema translation

\* type_map of create_duckdb_table.
type_map ==
    [ UInt8 |-> "UTINYINT", UInt16 |-> "USMALLINT", UInt32 |-> "UINTEGER",
      UInt64 |-> "UBIGINT", Int8 |-> "TINYINT", Int16 |-> "SMALLINT",
      Int32 |-> "INTEGER", Int64 |-> "BIGINT", Float32 |-> "FLOAT",
      Float64 |-> "DOUBLE", String |-> "VARCHAR", DateTime |-> "TIMESTAMP",
      Date |-> "DATE", UUID |-> "VARCHAR" ]

\* A ClickHouse type name is the sequence of its tokens: <<"Int32">>,
\* <<"Nullable(", "Int32", ")">>.  The token "Nullable(" is the 9 characters
\* startswith tests and [9:-1] cuts, ")" the one character it cuts at the end.
Nullable(t) == <<"Nullable(">> \o t \o <<")">>
LowCardinality(t) == <<"LowCardinality(">> \o t \o <<")">>

\* Type names without a wrapper: six keys of type_map and two names that are
\* no key.
BaseTypes ==
    { <<b>> : b \in {"UInt64", "Int32", "Float64", "String", "DateTime", "Date",
                     "DateTime64(3)", "Bool"} }

\* The type names DESCRIBE returns here.  ClickHouse lets Nullable wrap a
\* type without a wrapper only (no Nullable(Nullable(T)), no
\* Nullable(LowCardinality(T))).
TypeNames ==
    BaseTypes \cup {Nullable(t) : t \in BaseTypes}
              \cup {LowCardinality(Nullable(t)) : t \in BaseTypes}

ColNames == <<"id", "timestamp", "user_id", "domain">>

\* The rows of DESCRIBE table: up to n columns, the names distinct.
Schemas(n) ==
    { [i \in 1..Len(f) |-> [name |-> ColNames[i], type |-> f[i]]] :
        f \in UNION {[1..k -> TypeNames] : k \in 1..n} }

\* Mutant of UnwrapNullable: the type name is looked up as it stands.
UnwrapNullableNot(ch_type) == ch_type

\* if ch_type.startswith('Nullable('): ch_type = ch_type[9:-1]
UnwrapNullable(ch_type) ==
    IF Len(ch_type) > 0 /\ ch_type[1] = "Nullable("
    THEN SubSeq(ch_type, 2, Len(ch_type) - 1)
    ELSE ch_type

\* type_map.get(ch_type, 'VARCHAR'): the whole name has to be a key.
duck_type(ch_type) ==
    LET inner == UnwrapNullable(ch_type)
    IN  IF Len(inner) = 1 /\ inner[1] \in DOMAIN type_map
        THEN type_map[inner[1]]
        ELSE "VARCHAR"

\* Mutant of columns: a column whose type is no key of type_map is left out.
RECURSIVE columnsMappedOnly(_)
columnsMappedOnly(schema) ==
    IF Len(schema) = 0 THEN <<>>
    ELSE LET col == Head(schema)
             inner == UnwrapNullable(col.type)
         IN  (IF Len(inner) = 1 /\ inner[1] \in DOMAIN type_map
              THEN <<[name |-> col.name, type |-> type_map[inner[1]]]>>
              ELSE <<>>) \o columnsMappedOnly(Tail(schema))

\* for col in schema: columns.append(f'"{name}" {duck_type}')
RECURSIVE columns(_)
columns(schema) ==
    IF Len(schema) = 0 THEN <<>>
    ELSE LET col == Head(schema)
         IN  <<[name |-> col.name, type |-> duck_type(col.type)]>>
               \o columns(Tail(schema))

\* The schema of the tables of TABLES where the specification fixes it.
DefaultSchema == <<[name |-> "timestamp", type |-> <<"UInt32">>]>>


\* ----------------------------------------------------------------- state
VARIABLES
    cmd,            \* sys.argv[1], or "all" when there is no argument
    sync_by_day,    \* TABLES[table][2]
    schema,         \* table -> the rows DESCRIBE returns for it
    src,            \* the ClickHouse tables: table -> rows
    dest,           \* the DuckDB tables ch_<table>: table -> [exists, rows, cols]
    pc,             \* where the process is; "idle" when no process runs
    cur,            \* index in TABLES of the table being synced
    result,         \* table -> what sync_table returned in this process
    exit,           \* exit status of the process
    total_rows, max_ts, rows_to_sync, rows_synced, offset, attempt,
    dates_result, days_done, start_time, last_print_time,
    progress,       \* the progress lines of the current sync (OffsetLine, DayLine)
    srcVersion,     \* writes to the source so far
    now,            \* time.time()
    h               \* history of the current process (see NewHistory)

config == <<cmd, sync_by_day, schema>>
timing == <<start_time, last_print_time, progress>>
locals == <<total_rows, max_ts, rows_to_sync, rows_synced, offset, attempt,
            dates_result, days_done, timing>>
vars == <<cmd, sync_by_day, schema, src, dest, pc, cur, result, exit,
          total_rows, max_ts, rows_to_sync, rows_synced, offset, attempt,
          dates_result, days_done, start_time, last_print_time, progress,
          srcVersion, now, h>>

table == TableNames[cur]

\* Watermark values a table can hold.  sync_table_by_day applies toDate to
\* the column, so it holds dates or datetimes, which Python never treats as
\* false; a table synced by offset may hold any mapped type, 0 included.
Watermarks(byday) == IF byday THEN 1..MaxTs ELSE 0..MaxTs

NoLocals ==
    /\ total_rows' = 0
    /\ max_ts' = None
    /\ rows_to_sync' = 0
    /\ rows_synced' = 0
    /\ offset' = 0
    /\ attempt' = 0
    /\ dates_result' = <<>>
    /\ days_done' = 0
    /\ start_time' = 0
    /\ last_print_time' = 0
    /\ progress' = <<>>

\* What is remembered for the properties.  No action's guard or program
\* state reads it.  The first block is per sync_table call, the second per
\* process, the third is the process before this one.
NewSync ==
    [ mode        |-> "none",   \* "FULL" / "INCREMENTAL" once resolved
      insBase     |-> 0,        \* rows of dest[table] this sync did not insert
      ddl         |-> <<>>,     \* DROP / CREATE statements this sync executed
      fetchCalls  |-> 0,        \* calls of ch_query_batch in this sync
      requests    |-> 0,        \* requests sent by the current fetch
      third       |-> FALSE,    \* a batch came back on the third request
      shortBefore |-> FALSE ]   \* a batch < batch_size came while offset < rows_to_sync

\* A call of get_duckdb_max_timestamp: the table it read and what it
\* returned.
NoProbe ==
    [ called |-> FALSE,
      d      |-> [exists |-> FALSE, rows |-> <<>>, cols |-> <<>>],
      m      |-> None ]

NewHistory(runs, prev, len) ==
    [ sync        |-> NewSync,
      probe       |-> prev.probe,    \* the last call of the resolver
      runs        |-> runs,          \* processes started so far
      verAtStart  |-> srcVersion,    \* srcVersion when the process started
      shrunk      |-> FALSE,         \* a source row was deleted during the process
      raisedAt    |-> "none",        \* pc at which an exception left main()
      raisedTable |-> 0,             \* index of the table it came from
      end         |-> "none",        \* "returned" / "raised" / "killed"
      prevMode    |-> prev.sync.mode,
      prevEnd     |-> prev.end,
      prevVer     |-> prev.verAtStart,
      prevLen     |-> len ]          \* rows of the destination table at the start

NoPrev == [sync |-> NewSync, probe |-> NoProbe, end |-> "none", verAtStart |-> 0]

InitCommon ==
    /\ dest = [t \in Tables |-> [exists |-> FALSE, rows |-> <<>>, cols |-> <<>>]]
    /\ pc = "idle"
    /\ cur = 1
    /\ result = [t \in Tables |-> "none"]
    /\ exit = "none"
    /\ total_rows = 0
    /\ max_ts = None
    /\ rows_to_sync = 0
    /\ rows_synced = 0
    /\ offset = 0
    /\ attempt = 0
    /\ dates_result = <<>>
    /\ days_done = 0
    /\ start_time = 0
    /\ last_print_time = 0
    /\ progress = <<>>
    /\ srcVersion = 0
    /\ now = 0
    /\ h = NewHistory(0, NoPrev, 0)

\* python clickhouse_to_duckdb.py user_activity_logs, on a fresh warehouse;
\* the table is configured for one of the two strategies.
Init ==
    /\ cmd = TableNames[1]
    /\ \E byday \in BOOLEAN :
         /\ sync_by_day = [t \in Tables |-> t = TableNames[1] /\ byday]
         /\ \E rows \in SortedSeqs(Watermarks(byday), MaxSrc) :
              src = [t \in Tables |-> IF t = TableNames[1] THEN rows ELSE <<>>]
    /\ schema = [t \in Tables |-> DefaultSchema]
    /\ InitCommon

\* python clickhouse_to_duckdb.py, on a fresh warehouse, TABLES as in the
\* source; each source table holds some rows of distinct watermarks 1, 2, ...
InitAll ==
    /\ cmd = "all"
    /\ sync_by_day = [t \in Tables |-> FALSE]
    /\ src \in [Tables -> {[i \in 1..k |-> i] : k \in 0..MainMaxSrc}]
    /\ schema = [t \in Tables |-> DefaultSchema]
    /\ InitCommon


\* ------------------------------------------------------------ control flow

IndexOf(name) == CHOOSE i \in 1..NumTables : TableNames[i] = name

\* Mutant of Start: the status command goes on into the loop over TABLES.
StartStatusSyncs ==
    /\ pc = "idle"
    /\ h.runs < MaxRuns
    /\ LET first == IF cmd \in Tables THEN cmd ELSE TableNames[1]
           started == NewHistory(h.runs + 1, h, Len(dest[first].rows))
       IN  /\ cur' = IF cmd \in Tables THEN IndexOf(cmd) ELSE 1
           /\ result' = [t \in Tables |-> "none"]
           /\ IF cmd \in Tables \cup {"all", "status"}
              THEN pc' = "info" /\ exit' = "running" /\ h' = started
              ELSE pc' = "idle" /\ exit' = "0" /\ h' = [started EXCEPT !.end = "returned"]
    /\ NoLocals
    /\ UNCHANGED <<config, src, dest, srcVersion, now>>

\* main(): connect, then by sys.argv: show_status alone for "status",
\* sync_table for a table named, "Unknown command" for any other word, and
\* with no argument sync_table for the first of TABLES.
Start ==
    /\ pc = "idle"
    /\ h.runs < MaxRuns
    /\ LET first == IF cmd \in Tables THEN cmd ELSE TableNames[1]
           started == NewHistory(h.runs + 1, h, Len(dest[first].rows))
       IN  /\ cur' = IF cmd \in Tables THEN IndexOf(cmd) ELSE 1
           /\ result' = [t \in Tables |-> "none"]
           /\ IF cmd = "status"
              THEN pc' = "status" /\ exit' = "running" /\ h' = started
              ELSE IF cmd \in Tables \cup {"all"}
                   THEN pc' = "info" /\ exit' = "running" /\ h' = started
                   ELSE /\ pc' = "idle"
                        /\ exit' = "0"
                        /\ h' = [started EXCEPT !.end = "returned"]
    /\ NoLocals
    /\ UNCHANGED <<config, src, dest, srcVersion, now>>

\* Mutant of Return: main() leaves with status 1 when sync_table returned
\* False.
ReturnChecked(res, hh) ==
    /\ result' = [result EXCEPT ![table] = res]
    /\ IF res = "false"
       THEN /\ pc' = "idle" /\ exit' = "1" /\ h' = [hh EXCEPT !.end = "returned"]
            /\ cur' = cur
       ELSE IF cmd = "all"
            THEN /\ exit' = exit
                 /\ h' = hh
                 /\ IF cur < NumTables
                    THEN pc' = "info" /\ cur' = cur + 1
                    ELSE pc' = "status" /\ cur' = cur
            ELSE /\ pc' = "idle"
                 /\ cur' = cur
                 /\ exit' = "0"
                 /\ h' = [hh EXCEPT !.end = "returned"]

\* sync_table returns res to main: the loop over TABLES goes on (the value is
\* dropped), then show_status; a single-table run closes and returns.
Return(res, hh) ==
    /\ result' = [result EXCEPT ![table] = res]
    /\ IF cmd = "all"
       THEN /\ exit' = exit
            /\ h' = hh
            /\ IF cur < NumTables
               THEN pc' = "info" /\ cur' = cur + 1
               ELSE pc' = "status" /\ cur' = cur
       ELSE /\ pc' = "idle"
            /\ cur' = cur
            /\ exit' = "0"
            /\ h' = [hh EXCEPT !.end = "returned"]

\* Mutant of Raise: main() catches the exception, counts the table as
\* failed and goes on with the next one.
RaiseCaught(hh) ==
    /\ Return("false", [hh EXCEPT !.raisedAt = pc, !.raisedTable = cur])
    /\ NoLocals
    /\ UNCHANGED <<config, src, dest, srcVersion, now>>

\* An exception nobody catches: sync_table_offset, sync_table_by_day,
\* sync_table and main have no try block, so it ends the process with a
\* traceback and exit status 1.  What the process held in memory is gone.
Raise(hh) ==
    /\ pc' = "idle"
    /\ exit' = "1"
    /\ h' = [hh EXCEPT !.raisedAt = pc, !.raisedTable = cur, !.end = "raised"]
    /\ NoLocals
    /\ UNCHANGED <<config, src, dest, cur, result, srcVersion, now>>

\* The statement goes on inside the same sync_table call.
Goto(label, hh) ==
    /\ pc' = label
    /\ h' = hh
    /\ UNCHANGED <<cur, result, exit>>

\* ZeroDivisionError in the progress step of a loop, after the insert of the
\* batch: nobody catches it either.
ZeroDivision(hh) ==
    /\ pc' = "idle"
    /\ exit' = "1"
    /\ h' = [hh EXCEPT !.raisedAt = "progress", !.raisedTable = cur, !.end = "raised"]
    /\ NoLocals
    /\ UNCHANGED <<cur, result>>

\* get_ch_table_info at the head of sync_table_offset / sync_table_by_day.
GetInfo ==
    /\ pc = "info"
    /\ \/ /\ total_rows' = IF sync_by_day[table] THEN 0 ELSE Len(src[table])
          /\ max_ts' = None /\ rows_to_sync' = 0 /\ rows_synced' = 0
          /\ offset' = 0 /\ attempt' = 0 /\ dates_result' = <<>> /\ days_done' = 0
          /\ start_time' = 0 /\ last_print_time' = 0 /\ progress' = <<>>
          /\ Goto("resolve", [h EXCEPT !.sync = NewSync])
          /\ UNCHANGED <<config, src, dest, srcVersion, now>>
       \/ \* the response holds no row: "Failed to get info", return False
          /\ Return("false", [h EXCEPT !.sync = NewSync])
          /\ NoLocals
          /\ UNCHANGED <<config, src, dest, srcVersion, now>>
       \/ \* requests.get or raise_for_status raises
          Raise([h EXCEPT !.sync = [NewSync EXCEPT !.requests = 1]])

\* Mutant of Resolve: a table in which no cutoff is found is dropped by the
\* call that looked for it.
ResolveDropping ==
    /\ pc = "resolve"
    /\ LET m == get_duckdb_max_timestamp(dest[table])
           probed == [h EXCEPT !.probe = [called |-> TRUE, d |-> dest[table], m |-> m]]
       IN  /\ max_ts' = m
           /\ IF Truthy(m)
              THEN /\ dest' = dest
                   /\ rows_to_sync' = rows_to_sync
                   /\ Goto(IF sync_by_day[table] THEN "dates" ELSE "count",
                           [probed EXCEPT !.sync.mode = "INCREMENTAL",
                                          !.sync.insBase = Len(dest[table].rows)])
              ELSE /\ dest' = [dest EXCEPT ![table] =
                                  [exists |-> FALSE, rows |-> <<>>, cols |-> <<>>]]
                   /\ rows_to_sync' = total_rows
                   /\ Goto("drop", [probed EXCEPT !.sync.mode = "FULL"])
    /\ UNCHANGED <<config, src, total_rows, rows_synced, offset, attempt,
                   dates_result, days_done, timing, srcVersion, now>>

\* Mutant of Resolve: the error of the SELECT on a missing table is not
\* caught.
ResolvePropagating ==
    /\ pc = "resolve"
    /\ IF ~dest[table].exists
       THEN Raise([h EXCEPT !.probe = [called |-> TRUE, d |-> dest[table], m |-> None]])
       ELSE LET m == get_duckdb_max_timestamp(dest[table])
                probed == [h EXCEPT !.probe = [called |-> TRUE, d |-> dest[table], m |-> m]]
            IN  /\ max_ts' = m
                /\ IF Truthy(m)
                   THEN /\ rows_to_sync' = rows_to_sync
                        /\ Goto(IF sync_by_day[table] THEN "dates" ELSE "count",
                                [probed EXCEPT !.sync.mode = "INCREMENTAL",
                                               !.sync.insBase = Len(dest[table].rows)])
                   ELSE /\ rows_to_sync' = total_rows
                        /\ Goto("drop", [probed EXCEPT !.sync.mode = "FULL"])
                /\ UNCHANGED <<config, src, dest, total_rows, rows_synced, offset,
                               attempt, dates_result, days_done, timing, srcVersion,
                               now>>

\* max_ts = get_duckdb_max_timestamp(...) and the branch on it, up to the
\* next statement: the count request, the dates request or DROP TABLE.
Resolve ==
    /\ pc = "resolve"
    /\ LET m == get_duckdb_max_timestamp(dest[table])
           probed == [h EXCEPT !.probe = [called |-> TRUE, d |-> dest[table], m |-> m]]
       IN  /\ max_ts' = m
           /\ IF Truthy(m)
              THEN /\ rows_to_sync' = rows_to_sync
                   /\ Goto(IF sync_by_day[table] THEN "dates" ELSE "count",
                           [probed EXCEPT !.sync.mode = "INCREMENTAL",
                                          !.sync.insBase = Len(dest[table].rows)])
              ELSE /\ rows_to_sync' = total_rows
                   /\ Goto("drop", [probed EXCEPT !.sync.mode = "FULL"])
    /\ UNCHANGED <<config, src, dest, total_rows, rows_synced, offset, attempt,
                   dates_result, days_done, timing, srcVersion, now>>

\* DROP TABLE IF EXISTS ch_<table> of a full sync; sync_table_offset then
\* sets up the loop (lines 302-309) and tests table_created.
DropTable ==
    /\ pc = "drop"
    /\ dest' = [dest EXCEPT ![table] = [exists |-> FALSE, rows |-> <<>>, cols |-> <<>>]]
    /\ LET dropped == [h EXCEPT !.sync.ddl = Append(@, "DROP")]
       IN  IF sync_by_day[table]
           THEN /\ Goto("create", dropped)
                /\ start_time' = start_time
           ELSE /\ start_time' = now
                /\ IF table_created(max_ts)
                   THEN IF LoopCond(offset, rows_to_sync)
                        THEN Goto("fetch", dropped)
                        ELSE Return("true", dropped)
                   ELSE Goto("create", dropped)
    /\ UNCHANGED <<config, src, total_rows, max_ts, rows_to_sync, rows_synced,
                   offset, attempt, dates_result, days_done, last_print_time,
                   progress, srcVersion, now>>

\* create_duckdb_table: DESCRIBE at the source, then CREATE TABLE IF NOT
\* EXISTS; then the first test of the while loop.
CreateTable ==
    /\ pc = "create"
    /\ \/ /\ dest' = [dest EXCEPT ![table] =
                         IF @.exists THEN @
                         ELSE [exists |-> TRUE, rows |-> <<>>,
                               cols |-> columns(schema[table])]]
          /\ LET created == [h EXCEPT !.sync.ddl = Append(@, "CREATE")]
             IN  IF sync_by_day[table]
                 THEN Goto("dates", created)
                 ELSE IF LoopCond(offset, rows_to_sync)
                      THEN Goto("fetch", created)
                      ELSE Return("true", created)
          /\ UNCHANGED <<config, src, locals, srcVersion, now>>
       \/ Raise([h EXCEPT !.sync.requests = 1])

\* SELECT count() ... WHERE ts_col > max_ts, and "Already up to date".
CountNew ==
    /\ pc = "count"
    /\ \/ LET cnt == Len(WhereAfter(src[table], max_ts))
          IN  /\ rows_to_sync' = cnt
              /\ IF cnt = 0
                 THEN /\ Return("true", h)
                      /\ start_time' = start_time
                 ELSE /\ start_time' = now
                      /\ IF table_created(max_ts)
                         THEN Goto("fetch", h)
                         ELSE Goto("create", h)
              /\ UNCHANGED <<config, src, dest, total_rows, max_ts, rows_synced,
                             offset, attempt, dates_result, days_done,
                             last_print_time, progress, srcVersion, now>>
       \/ Raise([h EXCEPT !.sync.requests = 1])

\* ------------------------------------------------- offset-paginated loop

\* Mutant of Insert: the batch replaces what the table held.
InsertReplacing(d, rows) == [d EXCEPT !.rows = rows]

\* Mutant of Insert: the statement runs twice.
InsertTwice(d, rows) == [d EXCEPT !.rows = @ \o rows \o rows]

\* Mutant of Insert: the statement is queued and has not run when the next
\* request is sent.
InsertDeferred(d, rows) == d

\* INSERT INTO ch_<table> via executemany: the batch is appended in one
\* statement.
Insert(d, rows) == [d EXCEPT !.rows = @ \o rows]

\* One request of ch_query_batch answered (lines 75-78), and the rest of the
\* loop body of sync_table_offset up to the next request (lines 320-343).
FetchBatch ==
    /\ pc = "fetch"
    /\ LET batch == LimitOffset(WhereAfter(src[table], max_ts), BatchSize, offset)
           got == [h EXCEPT !.sync.requests = @ + 1,
                            !.sync.fetchCalls = @ + 1,
                            !.sync.third = @ \/ attempt = Attempts - 1]
           elapsed == now - start_time
           synced == rows_synced + Len(batch)
           line == OffsetLine(now, synced, rows_to_sync, elapsed)
           print == ShouldPrint(elapsed, last_print_time, synced, batch)
       IN  IF Len(batch) = 0
           THEN \* if not batch: break, and the "Done" line
                /\ dest' = dest
                /\ IF Failed(speed(rows_synced, elapsed))
                   THEN ZeroDivision(got)
                   ELSE /\ Return("true", [got EXCEPT !.sync.shortBefore = TRUE])
                        /\ UNCHANGED locals
           ELSE /\ dest' = [dest EXCEPT ![table] = Insert(@, batch)]
                /\ IF LineFailed(line)
                   THEN ZeroDivision(got)
                   ELSE /\ rows_synced' = synced
                        /\ offset' = offset + Len(batch)
                        /\ progress' = IF print THEN Append(progress, line)
                                       ELSE progress
                        /\ last_print_time' = IF print THEN elapsed
                                              ELSE last_print_time
                        /\ IF ShortBatch(batch)
                           THEN \* fewer rows than requested: break
                                /\ Return("true",
                                          [got EXCEPT !.sync.shortBefore =
                                               @ \/ offset + Len(batch) < rows_to_sync])
                                /\ attempt' = attempt
                           ELSE IF LoopCond(offset + Len(batch), rows_to_sync)
                                THEN /\ Goto("fetch", [got EXCEPT !.sync.requests = 0])
                                     /\ attempt' = 0
                                ELSE /\ Return("true", got)
                                     /\ attempt' = attempt
                        /\ UNCHANGED <<total_rows, max_ts, rows_to_sync,
                                       dates_result, days_done, start_time>>
    /\ UNCHANGED <<config, src, srcVersion, now>>

\* Mutant of FetchFail: a failed request is taken for a fetched batch and
\* the offset moves on.
FetchFailAdvances ==
    /\ pc = "fetch"
    /\ IF LastAttempt(attempt)
       THEN Raise([h EXCEPT !.sync.requests = @ + 1, !.sync.fetchCalls = @ + 1])
       ELSE /\ attempt' = attempt + 1
            /\ offset' = offset + BatchSize
            /\ Goto("fetch", [h EXCEPT !.sync.requests = @ + 1])
            /\ UNCHANGED <<config, src, dest, total_rows, max_ts, rows_to_sync,
                           rows_synced, dates_result, days_done, timing,
                           srcVersion, now>>

\* One request of ch_query_batch raises (lines 79-83): retry after 2 s, or
\* re-raise on the last attempt.
FetchFail ==
    /\ pc = "fetch"
    /\ IF LastAttempt(attempt)
       THEN Raise([h EXCEPT !.sync.requests = @ + 1, !.sync.fetchCalls = @ + 1])
       ELSE /\ attempt' = attempt + 1
            /\ Goto("fetch", [h EXCEPT !.sync.requests = @ + 1])
            /\ UNCHANGED <<config, src, dest, total_rows, max_ts, rows_to_sync,
                           rows_synced, offset, dates_result, days_done, timing,
                           srcVersion, now>>

\* --------------------------------------------------- date-bucketed loop

\* The dates query of sync_table_by_day (lines 204-216).
Dates ==
    /\ pc = "dates"
    /\ \/ LET ds == DatesQuery(src[table], max_ts)
          IN  /\ dates_result' = ds
              /\ total_rows' = SumCnt(ds)
              /\ IF Len(ds) = 0
                 THEN Return("true", h) /\ start_time' = start_time
                 ELSE Goto("bucket", h) /\ start_time' = now
              /\ UNCHANGED <<config, src, dest, max_ts, rows_to_sync, rows_synced,
                             offset, attempt, days_done, last_print_time, progress,
                             srcVersion, now>>
       \/ Raise([h EXCEPT !.sync.requests = 1])

\* One pass of the loop over dates_result (lines 223-251): ch_query for the
\* day, one attempt, then the insert.
FetchDay ==
    /\ pc = "bucket"
    /\ \/ LET day == dates_result[days_done + 1].d
              day_data == DayQuery(src[table], max_ts, day)
              synced == rows_synced + Len(day_data)
              line == DayLine(now, synced, total_rows, now - start_time)
          IN  /\ dest' = IF Len(day_data) > 0
                         THEN [dest EXCEPT ![table] = Insert(@, day_data)]
                         ELSE dest
              /\ IF LineFailed(line)
                 THEN ZeroDivision([h EXCEPT !.sync.requests = 1])
                 ELSE /\ rows_synced' = synced
                      /\ days_done' = days_done + 1
                      /\ progress' = PrintDay(progress, line)
                      /\ IF days_done + 1 = Len(dates_result)
                         THEN Return("true", [h EXCEPT !.sync.requests = 1])
                         ELSE Goto("bucket", [h EXCEPT !.sync.requests = 0])
                      /\ UNCHANGED <<total_rows, max_ts, rows_to_sync, offset,
                                     attempt, dates_result, start_time,
                                     last_print_time>>
              /\ UNCHANGED <<config, src, srcVersion, now>>
       \/ Raise([h EXCEPT !.sync.requests = 1])

\* ------------------------------------------------------- end of main()

\* show_status, called by the status command or after the loop over TABLES
\* (which then closes the connection): it reads the row counts of both
\* sides; get_ch_table_info per table may raise, the DuckDB count is guarded.
ShowStatus ==
    /\ pc = "status"
    /\ \/ /\ pc' = "idle"
          /\ exit' = "0"
          /\ h' = [h EXCEPT !.end = "returned"]
          /\ UNCHANGED <<config, src, dest, cur, result, locals, srcVersion, now>>
       \/ Raise(h)

\* ---------------------------------------------------------- environment

\* The process is terminated from outside, between two statements; what it
\* held in memory is gone.
Kill ==
    /\ pc # "idle"
    /\ pc' = "idle"
    /\ exit' = "killed"
    /\ h' = [h EXCEPT !.end = "killed", !.sync = NewSync]
    /\ NoLocals
    /\ UNCHANGED <<config, src, dest, cur, result, srcVersion, now>>

\* The tables this invocation touches.
InScope == IF cmd = "all" THEN Tables ELSE {cmd}

\* Another client appends a row; its watermark is not below the last one.
SourceAppend ==
    /\ srcVersion < MaxSrcChanges
    /\ \E t \in InScope :
         /\ Len(src[t]) < MaxSrc
         /\ \E ts \in Watermarks(sync_by_day[t]) :
              /\ Len(src[t]) > 0 => ts >= src[t][Len(src[t])]
              /\ src' = [src EXCEPT ![t] = Append(@, ts)]
    /\ srcVersion' = srcVersion + 1
    /\ UNCHANGED <<config, dest, pc, cur, result, exit, locals, now, h>>

\* Another client deletes a row.
SourceDelete ==
    /\ srcVersion < MaxSrcChanges
    /\ \E t \in InScope :
         \E i \in 1..Len(src[t]) :
              src' = [src EXCEPT ![t] = SubSeq(@, 1, i - 1) \o SubSeq(@, i + 1, Len(@))]
    /\ srcVersion' = srcVersion + 1
    /\ h' = [h EXCEPT !.shrunk = @ \/ pc # "idle"]
    /\ UNCHANGED <<config, dest, pc, cur, result, exit, locals, now>>

\* Time passes while the process runs.
Tick ==
    /\ pc # "idle"
    /\ now + TickLen <= MaxTime
    /\ now' = now + TickLen
    /\ UNCHANGED <<config, src, dest, pc, cur, result, exit, locals, srcVersion, h>>

Next ==
    \/ Start
    \/ GetInfo
    \/ Resolve
    \/ DropTable
    \/ CreateTable
    \/ CountNew
    \/ FetchBatch
    \/ FetchFail
    \/ Dates
    \/ FetchDay
    \/ Kill
    \/ SourceAppend
    \/ SourceDelete

\* One table named on the command line, run time after time.
Spec == Init /\ [][Next]_vars

\* The same on a warehouse an earlier sync has filled: the destination table
\* holds the first rows of the source, or none, or is absent.  Nobody writes
\* the source or ends the process from outside, and a batch fetch does not
\* fail.
InitPopulated ==
    /\ cmd = TableNames[1]
    /\ schema = [t \in Tables |-> DefaultSchema]
    /\ pc = "idle"
    /\ cur = 1
    /\ result = [t \in Tables |-> "none"]
    /\ exit = "none"
    /\ total_rows = 0
    /\ max_ts = None
    /\ rows_to_sync = 0
    /\ rows_synced = 0
    /\ offset = 0
    /\ attempt = 0
    /\ dates_result = <<>>
    /\ days_done = 0
    /\ start_time = 0
    /\ last_print_time = 0
    /\ progress = <<>>
    /\ srcVersion = 0
    /\ now = 0
    /\ \E byday \in BOOLEAN :
         /\ sync_by_day = [t \in Tables |-> t = TableNames[1] /\ byday]
         /\ \E rows \in SortedSeqs(Watermarks(byday), MaxSrc) :
              /\ src = [t \in Tables |-> IF t = TableNames[1] THEN rows ELSE <<>>]
              /\ \E present \in BOOLEAN, k \in 0..Len(rows) :
                   /\ ~present => k = 0
                   /\ dest = [t \in Tables |->
                                IF t = TableNames[1] /\ present
                                THEN [exists |-> TRUE, rows |-> SubSeq(rows, 1, k),
                                      cols |-> columns(schema[t])]
                                ELSE [exists |-> FALSE, rows |-> <<>>, cols |-> <<>>]]
                   /\ h = NewHistory(0, NoPrev, k)

NextPopulated ==
    \/ Start
    \/ GetInfo
    \/ Resolve
    \/ DropTable
    \/ CreateTable
    \/ CountNew
    \/ FetchBatch
    \/ Dates
    \/ FetchDay

SpecPopulated == InitPopulated /\ [][NextPopulated]_vars

\* One table named on the command line, on a fresh warehouse, its source
\* empty, for every schema DESCRIBE can return: each run is a full sync that
\* creates the table.
InitSchema ==
    /\ cmd = TableNames[1]
    /\ sync_by_day = [t \in Tables |-> FALSE]
    /\ src = [t \in Tables |-> <<>>]
    /\ \E sch \in Schemas(MaxCols) :
         schema = [t \in Tables |-> IF t = TableNames[1] THEN sch ELSE DefaultSchema]
    /\ InitCommon

NextSchema ==
    \/ Start
    \/ GetInfo
    \/ Resolve
    \/ DropTable
    \/ CreateTable

SpecSchema == InitSchema /\ [][NextSchema]_vars

\* One table named on the command line, synced by either strategy on a
\* fresh warehouse while the clock runs; the source holds rows with
\* watermarks 1, 2, ...: up to MaxBatches full batches when synced by offset,
\* up to MaxBatches rows when synced by day.
InitProgress ==
    /\ cmd = TableNames[1]
    /\ schema = [t \in Tables |-> DefaultSchema]
    /\ \E byday \in BOOLEAN :
         /\ sync_by_day = [t \in Tables |-> t = TableNames[1] /\ byday]
         /\ \E k \in 0..(IF byday THEN MaxBatches ELSE MaxBatches * BatchSize) :
              src = [t \in Tables |->
                       IF t = TableNames[1] THEN [i \in 1..k |-> i] ELSE <<>>]
    /\ InitCommon

NextProgress ==
    \/ Start
    \/ GetInfo
    \/ Resolve
    \/ DropTable
    \/ CreateTable
    \/ CountNew
    \/ FetchBatch
    \/ Dates
    \/ FetchDay
    \/ Tick

SpecProgress == InitProgress /\ [][NextProgress]_vars

NextAll ==
    \/ Start
    \/ GetInfo
    \/ Resolve
    \/ DropTable
    \/ CreateTable
    \/ CountNew
    \/ FetchBatch
    \/ FetchFail
    \/ ShowStatus

\* No argument: every table of TABLES in turn.
SpecAll == InitAll /\ [][NextAll]_vars

\* One table named on the command line, on a fresh warehouse, its source
\* holding rows with watermarks 1, 2, ..., while other clients append to the
\* source; nobody ends the process from outside.  A request returns or raises
\* (requests.get has a timeout, lines 53 and 71), and the statements of a
\* loop body run on: the steps of the two loops are taken whenever they stay
\* possible.
InitLive ==
    /\ cmd = TableNames[1]
    /\ schema = [t \in Tables |-> DefaultSchema]
    /\ \E byday \in BOOLEAN :
         sync_by_day = [t \in Tables |-> t = TableNames[1] /\ byday]
    /\ \E k \in 0..MaxSrc :
         src = [t \in Tables |-> IF t = TableNames[1] THEN [i \in 1..k |-> i] ELSE <<>>]
    /\ InitCommon

NextLive ==
    \/ Start
    \/ GetInfo
    \/ Resolve
    \/ DropTable
    \/ CreateTable
    \/ CountNew
    \/ FetchBatch
    \/ FetchFail
    \/ Dates
    \/ FetchDay
    \/ SourceAppend

SpecLive ==
    /\ InitLive
    /\ [][NextLive]_vars
    /\ WF_vars(FetchBatch \/ FetchFail)
    /\ WF_vars(FetchDay)

\* One table synced by offset, named on the command line, on a fresh
\* warehouse; its source is append-only and starts with strictly increasing
\* watermarks.  Runs are ended from outside, requests fail, rows are
\* appended.
InitAppend ==
    /\ cmd = TableNames[1]
    /\ sync_by_day = [t \in Tables |-> FALSE]
    /\ schema = [t \in Tables |-> DefaultSchema]
    /\ \E rows \in SortedSeqs(Watermarks(FALSE), MaxSrc) :
         /\ \A i \in 1..(Len(rows) - 1) : rows[i] < rows[i + 1]
         /\ src = [t \in Tables |-> IF t = TableNames[1] THEN rows ELSE <<>>]
    /\ InitCommon

NextAppend ==
    \/ Start
    \/ GetInfo
    \/ Resolve
    \/ DropTable
    \/ CreateTable
    \/ CountNew
    \/ FetchBatch
    \/ FetchFail
    \/ Kill
    \/ SourceAppend

SpecAppend == InitAppend /\ [][NextAppend]_vars

\* python clickhouse_to_duckdb.py status, python clickhouse_to_duckdb.py and
\* python clickhouse_to_duckdb.py help (a word main does not know), on a
\* warehouse that is fresh or filled: every destination table is absent, or
\* holds all source rows, or all but the last one.
InitStatus ==
    /\ cmd \in {"status", "all", "help"}
    /\ sync_by_day = [t \in Tables |-> FALSE]
    /\ schema = [t \in Tables |-> DefaultSchema]
    /\ src \in [Tables -> {[i \in 1..k |-> i] : k \in 0..MainMaxSrc}]
    /\ pc = "idle"
    /\ cur = 1
    /\ result = [t \in Tables |-> "none"]
    /\ exit = "none"
    /\ total_rows = 0
    /\ max_ts = None
    /\ rows_to_sync = 0
    /\ rows_synced = 0
    /\ offset = 0
    /\ attempt = 0
    /\ dates_result = <<>>
    /\ days_done = 0
    /\ start_time = 0
    /\ last_print_time = 0
    /\ progress = <<>>
    /\ srcVersion = 0
    /\ now = 0
    /\ \E present \in BOOLEAN, lag \in 0..1 :
         /\ ~present => lag = 0
         /\ dest = [t \in Tables |->
                      IF present
                      THEN [exists |-> TRUE,
                            rows |-> SubSeq(src[t], 1, Len(src[t]) - lag),
                            cols |-> columns(schema[t])]
                      ELSE [exists |-> FALSE, rows |-> <<>>, cols |-> <<>>]]
         /\ h = NewHistory(0, NoPrev, Len(dest[TableNames[1]].rows))

NextStatus ==
    \/ Start
    \/ GetInfo
    \/ Resolve
    \/ DropTable
    \/ CreateTable
    \/ CountNew
    \/ FetchBatch
    \/ ShowStatus

SpecStatus == InitStatus /\ [][NextStatus]_vars


\* ------------------------------------------------------------ properties

\* The process has ended by returning from main() / the sync of the table
\* named on the command line returned True.
Returned == pc = "idle" /\ h.end = "returned"
Completed == Returned /\ cmd # "all" /\ result[cmd] = "true"

\* The source was not written since this process started.
Quiet == h.verAtStart = srcVersion

\* The rows of the destination table this sync inserted, and those it found.
Inserted == SubSeq(dest[table].rows, h.sync.insBase + 1, Len(dest[table].rows))
Kept == SubSeq(dest[table].rows, 1, h.sync.insBase)

\* The destination held, when the sync began, just the source rows up to the
\* cutoff (nothing on a full sync).
StartConsistent ==
    Kept = IF max_ts = None THEN <<>>
           ELSE SelectSeq(src[table], LAMBDA ts : ts <= max_ts)

CeilDiv(a, b) == (a + b - 1) \div b

\* C1 (as claimed): a date-bucketed incremental run whose cutoff falls inside
\* the first bucket's day, over a source nobody writes, inserts exactly the
\* source rows with watermark > cutoff, each once.
C1_MidDayCutoffNoDuplicates ==
    ( /\ Completed
      /\ sync_by_day[table]
      /\ h.sync.mode = "INCREMENTAL"
      /\ Quiet
      /\ Len(dates_result) > 0
      /\ dates_result[1].d = toDate(max_ts) )
    => Inserted = WhereAfter(src[table], max_ts)

C3_AtLeastOnceAfterKill ==
    ( /\ Completed
      /\ ~sync_by_day[table]
      /\ h.prevEnd = "killed"
      /\ h.prevVer = srcVersion )
    => \A v \in 0..MaxTs :
          Count(dest[table].rows, v) >= Count(src[table], v)

\* C4 (as claimed): in a completed offset-paginated run the batch sizes sum to
\* rows_to_sync unless a batch shorter than batch_size came back while the
\* offset was below rows_to_sync.
C4_SumEqualsTotal ==
    (Completed /\ ~sync_by_day[table])
    => (rows_synced = rows_to_sync \/ h.sync.shortBefore)

\* C4 (amended): the batch sizes sum to rows_to_sync when nobody writes the
\* source during the run; in any run they sum to at least rows_to_sync unless
\* a short batch came back early, and to less than rows_to_sync + batch_size
\* (more than rows_to_sync when the source grew).
C4_SumAtLeastTotal ==
    (Completed /\ ~sync_by_day[table])
    => /\ Quiet => rows_synced = rows_to_sync /\ ~h.sync.shortBefore
       /\ rows_synced >= rows_to_sync \/ h.sync.shortBefore
       /\ rows_synced < rows_to_sync + BatchSize
       /\ Len(Inserted) = rows_synced

C4_Witness ==
    /\ Completed
    /\ ~sync_by_day[table]
    /\ ~Quiet
    /\ ~h.sync.shortBefore
    /\ rows_synced > rows_to_sync

\* C5: a completed offset-paginated run over a source that did not shrink
\* called ch_query_batch exactly ceil(rows_to_sync / batch_size) times, and
\* ends with rows_synced = rows_to_sync when the source was not written.
C5_FetchCallsCeil ==
    (Completed /\ ~sync_by_day[table] /\ ~h.shrunk)
    => /\ h.sync.fetchCalls = CeilDiv(rows_to_sync, BatchSize)
       /\ Quiet => rows_synced = rows_to_sync

\* rows_to_sync a multiple of batch_size: full batches only, no empty fetch.
C5_Witness ==
    /\ Completed
    /\ ~sync_by_day[table]
    /\ Quiet
    /\ rows_to_sync = BatchSize
    /\ rows_synced = rows_to_sync
    /\ h.sync.fetchCalls = 1

\* The run before this one was a full sync that completed, and the source
\* has not been written since it began.
AfterFullSync ==
    /\ Completed
    /\ h.prevEnd = "returned"
    /\ h.prevMode = "FULL"
    /\ h.prevVer = srcVersion

\* C6 (as claimed): the run after a completed full sync, source unchanged,
\* resolves to INCREMENTAL, inserts no row and leaves the row count as it was.
C6_RoundTrip ==
    AfterFullSync
    => /\ h.sync.mode = "INCREMENTAL"
       /\ rows_synced = 0
       /\ Len(dest[table].rows) = h.prevLen

\* C6 (amended): that run leaves the destination with the row count it had,
\* holding the source rows; it is INCREMENTAL and inserts nothing exactly
\* when the resolver finds a cutoff (the source is not empty and its largest
\* watermark is not a false value), else it is a second FULL sync.
C6_RoundTripCount ==
    AfterFullSync
    => /\ Len(dest[table].rows) = h.prevLen
       /\ dest[table].rows = src[table]
       /\ IF Truthy(SqlMax(src[table]))
          THEN h.sync.mode = "INCREMENTAL" /\ rows_synced = 0 /\ Len(Inserted) = 0
          ELSE h.sync.mode = "FULL" /\ rows_synced = Len(src[table])

C6_Witness ==
    /\ AfterFullSync
    /\ h.sync.mode = "INCREMENTAL"
    /\ sync_by_day[table]
    /\ Len(src[table]) = MaxSrc
    /\ toDate(src[table][1]) # toDate(src[table][MaxSrc])

C8_RetryThenSuccess ==
    /\ pc = "fetch"
         => /\ h.sync.requests = attempt
            /\ attempt < Attempts
            /\ dest[table].exists
            /\ Len(dest[table].rows) = h.sync.insBase + rows_synced
            /\ offset = rows_synced
    /\ (Completed /\ ~sync_by_day[table] /\ h.sync.third)
         => /\ attempt = Attempts - 1 => h.sync.requests = Attempts
            /\ Quiet => /\ Inserted = WhereAfter(src[table], max_ts)
                        /\ StartConsistent => dest[table].rows = src[table]

C8_Witness ==
    /\ Completed
    /\ ~sync_by_day[table]
    /\ h.sync.third
    /\ attempt = Attempts - 1
    /\ h.sync.requests = Attempts
    /\ h.sync.fetchCalls = 2
    /\ Len(src[table]) > BatchSize
    /\ dest[table].rows = src[table]

\* C9 (as claimed): a fetch error ends a table's sync, in a batch fetch or in
\* a date-bucket fetch, only after 3 requests.
C9_EveryFetchRetried ==
    h.raisedAt \in {"fetch", "bucket"} => h.sync.requests = Attempts

\* C9 (amended): only the batch fetch of the offset strategy is tried 3 times;
\* a date-bucket fetch, like every other ch_query request, is tried once.
C9_OnlyBatchFetchRetried ==
    /\ h.raisedAt = "fetch" => h.sync.requests = Attempts /\ ~sync_by_day[table]
    /\ h.raisedAt \in {"info", "create", "count", "dates", "bucket"}
         => h.sync.requests = 1
    /\ pc = "fetch" => h.sync.requests = attempt /\ attempt < Attempts
    /\ pc = "bucket" => h.sync.requests = 0 /\ attempt = 0

C9_Witness ==
    /\ h.raisedAt = "fetch"
    /\ h.sync.requests = Attempts
    /\ h.sync.fetchCalls = 2

\* C10 (as claimed): the resolver yields FULL and no cutoff on a destination
\* table that is absent or empty, and INCREMENTAL with the largest stored
\* watermark as cutoff on a table that holds a row.
C10_ResolverCutoff ==
    [][ (pc = "resolve" /\ pc' \in {"drop", "count", "dates"})
        => LET d == dest[table]
           IN  IF ~d.exists \/ Len(d.rows) = 0
               THEN max_ts' = None /\ h'.sync.mode = "FULL"
               ELSE max_ts' = SqlMax(d.rows) /\ h'.sync.mode = "INCREMENTAL" ]_vars

\* C11 (as claimed): with the destination table absent the resolver returns
\* no cutoff (FULL); in the run after a completed full sync that wrote rows
\* it returns their largest watermark as cutoff (INCREMENTAL).
C11_ResolverAfterFullSync ==
    [][ (pc = "resolve" /\ pc' \in {"drop", "count", "dates"})
        => /\ ~dest[table].exists
                => max_ts' = None /\ h'.sync.mode = "FULL"
           /\ (h.prevEnd = "returned" /\ h.prevMode = "FULL" /\ h.prevLen > 0)
                => /\ max_ts' = SqlMax(dest[table].rows)
                   /\ h'.sync.mode = "INCREMENTAL" ]_vars

ProbeRaised == h.probe.called /\ ~h.probe.d.exists /\ h.sync.mode # "none"

\* C13: an error of the probe never leaves sync_table; the sync it happened
\* in is a FULL sync without cutoff that drops and recreates the table before
\* it fetches, fetches from the beginning, and when it completes over a
\* source nobody wrote meanwhile the destination holds exactly the source
\* rows.
C13_ProbeErrorFullSync ==
    /\ h.raisedAt # "resolve"
    /\ ProbeRaised
         => /\ h.sync.mode = "FULL"
            /\ max_ts = None
            /\ (pc \in {"fetch", "bucket"} \/ Completed)
                 => /\ h.sync.ddl = <<"DROP", "CREATE">>
                    /\ h.sync.insBase = 0
                    /\ Len(dest[table].rows) = rows_synced
            /\ pc = "fetch" => offset = rows_synced
            /\ (Completed /\ Quiet) => dest[table].rows = src[table]

C13_Witness ==
    /\ ProbeRaised
    /\ Completed
    /\ Quiet
    /\ h.prevEnd = "killed"
    /\ Len(src[table]) = MaxSrc
    /\ dest[table].rows = src[table]

\* C14: in an offset-paginated sync every batch fetched before the one being
\* requested was a full one, so a batch shorter than batch_size is the last
\* fetch of its run, also when the offset is still below rows_to_sync.
C14_ShortBatchEndsLoop ==
    /\ pc = "fetch" => rows_synced = h.sync.fetchCalls * BatchSize
    /\ (Completed /\ ~sync_by_day[table] /\ h.sync.fetchCalls > 0)
         => /\ rows_synced >= (h.sync.fetchCalls - 1) * BatchSize
            /\ rows_synced <= h.sync.fetchCalls * BatchSize

\* A batch of fewer rows, not empty, ended the loop below rows_to_sync.
C14_Witness ==
    /\ Completed
    /\ ~sync_by_day[table]
    /\ h.sync.shortBefore
    /\ rows_synced % BatchSize # 0
    /\ offset < rows_to_sync

\* rows_total of the progress lines: rows_to_sync in sync_table_offset,
\* total_rows in sync_table_by_day.
RowsTotal == IF sync_by_day[table] THEN total_rows ELSE rows_to_sync

C16_DdlOnlyOnFull ==
    /\ h.sync.mode = "INCREMENTAL"
         => /\ h.sync.ddl = <<>>
            /\ dest[table].exists
            /\ dest[table].cols = h.probe.d.cols
            /\ Kept = h.probe.d.rows
            /\ pc # "idle" => max_ts = h.probe.m /\ Truthy(max_ts)
    /\ h.sync.mode = "FULL"
         => /\ max_ts = None
            /\ pc = "drop" => h.sync.ddl = <<>>
            /\ pc = "create" => h.sync.ddl = <<"DROP">> /\ ~dest[table].exists
            /\ pc \in {"dates", "fetch", "bucket"}
                 => /\ h.sync.ddl = <<"DROP", "CREATE">>
                    /\ dest[table].exists
                    /\ Len(dest[table].rows) = rows_synced
            /\ pc = "fetch" => offset = rows_synced
            /\ h.sync.fetchCalls > 0 => h.sync.ddl = <<"DROP", "CREATE">>

C16_Witness ==
    /\ Completed
    /\ h.sync.mode = "INCREMENTAL"
    /\ h.sync.ddl = <<>>
    /\ Len(Kept) > 0
    /\ Len(Inserted) > 0

\* C17: the column list create_duckdb_table builds has one column per
\* source column, in the same order under the same name, each with a DuckDB
\* type, whatever the source type names are; the created table has these
\* columns.
C17_SchemaTotalOrdered ==
    LET sch == schema[table]
        out == columns(sch)
    IN  /\ Len(out) = Len(sch)
        /\ \A i \in 1..Len(sch) :
             /\ out[i].name = sch[i].name
             /\ out[i].type \in {type_map[k] : k \in DOMAIN type_map}
        /\ dest[table].exists
             => /\ Len(dest[table].cols) = Len(sch)
                /\ \A i \in 1..Len(sch) : dest[table].cols[i].name = sch[i].name

\* A table of two columns was created, the first of a type that is no key of
\* type_map.
C17_Witness ==
    /\ dest[table].exists
    /\ Len(schema[table]) = 2
    /\ schema[table][1].type = <<"DateTime64(3)">>
    /\ schema[table][2].type = <<"Int32">>
    /\ dest[table].cols = <<[name |-> "id", type |-> "VARCHAR"],
                            [name |-> "timestamp", type |-> "INTEGER"]>>

\* C18: in a created table a column of source type Nullable(T) has the
\* destination type of a column of source type T, and a column whose source
\* type, one Nullable wrapper taken off, is no key of type_map is VARCHAR.
C18_NullableUnwrapVarcharFallback ==
    dest[table].exists
    => LET sch == schema[table]
           cols == dest[table].cols
       IN  /\ \A i, j \in 1..Len(sch) :
                sch[i].type = Nullable(sch[j].type) => cols[i].type = cols[j].type
           /\ \A i \in 1..Len(sch) :
                LET t == sch[i].type
                    inner == IF t[1] = "Nullable(" THEN <<t[2]>> ELSE t
                IN  /\ (Len(t) > 1 /\ t[1] # "Nullable(") => cols[i].type = "VARCHAR"
                    /\ (Len(inner) = 1 /\ inner[1] \notin DOMAIN type_map)
                         => cols[i].type = "VARCHAR"

C18_Witness ==
    /\ dest[table].exists
    /\ Len(schema[table]) = 2
    /\ schema[table][1].type = Nullable(<<"DateTime">>)
    /\ schema[table][2].type = <<"DateTime">>
    /\ dest[table].cols[1].type = "TIMESTAMP"
    /\ dest[table].cols[2].type = "TIMESTAMP"

\* C19: in an offset-paginated sync there is a progress line as soon as the
\* first batch is inserted, reporting that batch, and between two progress
\* lines that follow each other at least 10 seconds pass.
C19_ProgressThrottled ==
    ~sync_by_day[table]
    => /\ rows_synced = 0 => progress = <<>>
       /\ rows_synced > 0
            => /\ Len(progress) >= 1
               /\ progress[1].rows = Min(BatchSize, rows_to_sync)
       /\ \A i \in 2..Len(progress) :
            progress[i].at - progress[i - 1].at >= PrintInterval

\* Three batches, the second less than 10 seconds after the first, the third
\* 10 seconds or more after it: two lines.
C19_Witness ==
    /\ Completed
    /\ ~sync_by_day[table]
    /\ h.sync.fetchCalls = 3
    /\ Len(progress) = 2
    /\ progress[2].rows = rows_synced
    /\ progress[2].at - progress[1].at = PrintInterval

\* C20 (as claimed): a full sync of a source of 5 full batches prints at
\* least 5 progress lines, however long the batches take.
C20_AtLeastFiveLines ==
    ( /\ Completed
      /\ ~sync_by_day[table]
      /\ h.sync.mode = "FULL"
      /\ Len(src[table]) = 5 * BatchSize )
    => Len(progress) >= 5

\* C20 (amended): a sync that inserted rows prints at least 1 progress line
\* and at most one per batch; it prints exactly 1 when the loop took less
\* than 10 seconds, and never more than 1 + (seconds the loop took) / 10.
C20_OneLinePerTenSeconds ==
    (Completed /\ ~sync_by_day[table] /\ rows_synced > 0)
    => /\ Len(progress) >= 1
       /\ Len(progress) <= h.sync.fetchCalls
       /\ now - start_time < PrintInterval => Len(progress) = 1
       /\ Len(progress) <= 1 + (now - start_time) \div PrintInterval

\* 5 full batches in less than 10 seconds: one line.
C20_Witness ==
    /\ Completed
    /\ ~sync_by_day[table]
    /\ h.sync.mode = "FULL"
    /\ Len(src[table]) = 5 * BatchSize
    /\ rows_synced = 5 * BatchSize
    /\ h.sync.fetchCalls = 5
    /\ now - start_time < PrintInterval
    /\ Len(progress) = 1

\* C21: execution is strictly sequential.  While sync_table runs for one
\* table, every table before it in TABLES has returned and no later one has
\* started (in the first process on a fresh warehouse the later tables do
\* not exist yet); and whenever a batch request is about to be sent, every
\* batch fetched before is inserted and its progress step is done.
C21_StrictlySequential ==
    /\ pc \in {"info", "resolve", "drop", "create", "count", "fetch"}
         => /\ \A i \in 1..(cur - 1) : result[TableNames[i]] # "none"
            /\ \A i \in cur..NumTables : result[TableNames[i]] = "none"
            /\ h.runs = 1 => \A i \in (cur + 1)..NumTables :
                                 ~dest[TableNames[i]].exists
    /\ pc = "fetch"
         => /\ offset = rows_synced
            /\ Len(dest[table].rows) = h.sync.insBase + rows_synced
            /\ rows_synced > 0
                 => /\ progress # <<>>
                    /\ progress[1].rows <= rows_synced

\* The second batch of the second table is about to be fetched: the first
\* table has returned, the third has not begun.
C21_Witness ==
    /\ cmd = "all"
    /\ pc = "fetch"
    /\ cur = 2
    /\ rows_synced = BatchSize
    /\ Len(dest[table].rows) = BatchSize
    /\ result[TableNames[1]] = "true"
    /\ Len(dest[TableNames[1]].rows) = Len(src[TableNames[1]])
    /\ Len(src[TableNames[1]]) > 0
    /\ h.runs = 1
    /\ ~dest[TableNames[3]].exists


\* C22: the status command transfers no data: no step of its process
\* changes a destination table (no drop, create or insert), and the process
\* never enters sync_table: it is at show_status or has ended, no table has
\* a sync result, and no sync has resolved a mode, sent a request or
\* executed DDL.
C22_StatusTransfersNothing ==
    [][cmd = "status"
         => /\ dest' = dest
            /\ pc' \in {"status", "idle"}
            /\ result' = [t \in Tables |-> "none"]
            /\ h'.sync = NewSync]_vars

\* status has returned on a warehouse that is one row behind the source.
C22_Witness ==
    /\ cmd = "status"
    /\ Returned
    /\ exit = "0"
    /\ h.runs = 1
    /\ dest[TableNames[1]].exists
    /\ Len(src[TableNames[1]]) = MainMaxSrc
    /\ Len(dest[TableNames[1]].rows) = MainMaxSrc - 1


\* C23: the progress computation never divides by zero, in either strategy:
\* no run ends with ZeroDivisionError in the progress step, every printed
\* line holds defined values, the throughput is 0 when the elapsed time is
\* 0, the ETA is 0 when the throughput is 0, and the percentage of a
\* date-bucketed run is 100 when the total is 0.
C23_NoDivisionByZero ==
    /\ h.raisedAt # "progress"
    /\ \A i \in 1..Len(progress) :
         /\ ~LineFailed(progress[i])
         /\ progress[i].at - start_time <= 0 => progress[i].speed = Zero
         /\ ~Positive(progress[i].speed) => progress[i].eta = Zero
         /\ (sync_by_day[table] /\ total_rows = 0) => progress[i].pct = Quot(100, 1)

\* A date-bucketed run of three buckets: the first line is printed with no
\* time elapsed (throughput 0, ETA 0), the second after some time with rows
\* left (throughput and ETA positive).
C23_Witness ==
    /\ Completed
    /\ sync_by_day[table]
    /\ Len(progress) = 3
    /\ progress[1].at = start_time
    /\ progress[1].speed = Zero
    /\ progress[1].eta = Zero
    /\ progress[1].pct.num > 0
    /\ Positive(progress[2].speed)
    /\ Positive(progress[2].eta)


\* C24 (as claimed): in a date-bucketed run the rows inserted while the
\* bucket of day d is processed all have their watermark on day d, in the
\* first bucket of an incremental run as in every other bucket.
C24_BucketRowsOnItsDay ==
    [][pc = "bucket"
         => \A i \in (Len(dest[table].rows) + 1)..Len(dest'[table].rows) :
               toDate(dest'[table].rows[i]) = dates_result[days_done + 1].d]_vars


\* C25 (as claimed): in a date-bucketed run, after the report of the first
\* bucket a progress line is emitted only when at least 10 seconds have
\* passed since the previous one.
C25_ByDayThrottled ==
    sync_by_day[table]
    => \A i \in 2..Len(progress) :
          progress[i].at - progress[i - 1].at >= PrintInterval

\* C25 (amended): a date-bucketed run emits one progress line after every
\* bucket, whatever time has passed since the line before: there are as many
\* lines as buckets processed, the i-th printed when the i-th bucket was
\* done, and a completed run has one line per bucket of the dates query.
C25_OneLinePerBucket ==
    sync_by_day[table]
    => /\ Len(progress) = days_done
       /\ \A i \in 2..Len(progress) :
            /\ progress[i].at >= progress[i - 1].at
            /\ progress[i].rows >= progress[i - 1].rows
       /\ (Completed /\ h.sync.mode # "none") => Len(progress) = Len(dates_result)

\* Three buckets done within less than 10 seconds: three lines.
C25_Witness ==
    /\ Completed
    /\ sync_by_day[table]
    /\ Len(dates_result) = 3
    /\ Len(progress) = 3
    /\ progress[3].at - progress[1].at < PrintInterval
    /\ progress[3].at > progress[1].at


\* C26: both loops terminate when every request returns or raises.  A run
\* that is in one of the loops leaves it; each call of ch_query_batch that
\* does not end the offset loop moves offset up by a batch, so the calls of
\* a sync number at most ceil(rows_to_sync / batch_size), also while the
\* source grows; each request of the loop over the buckets ends the run or
\* moves on to the next bucket, one request per bucket of the dates query.
C26_LoopsTerminate ==
    /\ (pc \in {"fetch", "bucket"}) ~> (pc = "idle")
    /\ [](pc = "fetch" => /\ offset < rows_to_sync
                          /\ offset = h.sync.fetchCalls * BatchSize
                          /\ h.sync.fetchCalls < CeilDiv(rows_to_sync, BatchSize))
    /\ []((Completed /\ ~sync_by_day[table])
            => h.sync.fetchCalls <= CeilDiv(rows_to_sync, BatchSize))
    /\ [][(pc = "fetch" /\ pc' = "fetch" /\ h'.sync.fetchCalls # h.sync.fetchCalls)
            => offset' > offset]_vars
    /\ [](pc = "bucket" => days_done < Len(dates_result))
    /\ [][(pc = "bucket" /\ src' = src)
            => \/ pc' = "bucket" /\ days_done' = days_done + 1
               \/ pc' = "idle" /\ result'[table] = "true"
                               /\ days_done' = Len(dates_result)
               \/ pc' = "idle" /\ exit' = "1"]_vars

\* The offset loop has ended after ceil(rows_to_sync / batch_size) calls
\* although a row was appended to the source during the run.
C26_Witness ==
    /\ Completed
    /\ ~sync_by_day[table]
    /\ ~Quiet
    /\ rows_to_sync = MaxSrc - 1
    /\ Len(src[table]) = MaxSrc
    /\ h.sync.fetchCalls = CeilDiv(rows_to_sync, BatchSize)
    /\ h.sync.fetchCalls >= 1


\* C27: in an offset-paginated run, at every test of the loop and when the
\* sync returns, offset = rows_synced = the number of rows this run has
\* inserted into the destination; every page that comes back starts at the
\* offset where the page before ended and moves offset up by its length, so
\* the pages are contiguous and do not overlap: what the run has inserted is
\* the first `offset` rows of the query result.
C27_OffsetCountsInserted ==
    /\ [](pc \in {"create", "fetch"}
            => /\ offset = rows_synced
               /\ Len(dest[table].rows) = h.sync.insBase + rows_synced
               /\ Inserted = SubSeq(WhereAfter(src[table], max_ts), 1, offset))
    /\ [][(pc = "fetch" /\ dest' # dest)
            => /\ offset' > offset
               /\ offset' = rows_synced'
               /\ Len(dest'[table].rows) = h.sync.insBase + rows_synced'
               /\ dest'[table].rows = dest[table].rows
                     \o SubSeq(WhereAfter(src[table], max_ts), offset + 1, offset')]_vars
    /\ [][(pc = "fetch" /\ pc' = "fetch") => offset' >= offset]_vars

\* The second page is being fetched for the second time: the first page is
\* in the destination and offset has not moved since.
C27_Witness ==
    /\ pc = "fetch"
    /\ attempt = 1
    /\ h.sync.fetchCalls = 1
    /\ offset = BatchSize
    /\ rows_synced = BatchSize
    /\ dest[table].rows = SubSeq(src[table], 1, BatchSize)
    /\ Len(src[table]) > BatchSize


\* The watermarks of the source are unique and strictly increasing.
StrictlyIncreasing(rows) == \A i \in 1..(Len(rows) - 1) : rows[i] < rows[i + 1]

\* C28: while the source is append-only and its watermarks are unique and
\* strictly increasing, then after any sequence of complete offset-paginated
\* runs and of runs ended between two batches the destination holds no row
\* twice and is exactly a prefix of the source in watermark order.
C28_DestinationIsPrefix ==
    StrictlyIncreasing(src[cmd])
    => /\ Len(dest[cmd].rows) <= Len(src[cmd])
       /\ dest[cmd].rows = SubSeq(src[cmd], 1, Len(dest[cmd].rows))
       /\ \A i, j \in 1..Len(dest[cmd].rows) :
            i # j => dest[cmd].rows[i] # dest[cmd].rows[j]

\* A run was ended after its first batch, a row was appended, and the next
\* run has completed: the destination is the whole source.
C28_Witness ==
    /\ Completed
    /\ h.runs = 2
    /\ h.prevEnd = "killed"
    /\ h.prevLen = BatchSize
    /\ h.sync.mode = "INCREMENTAL"
    /\ StrictlyIncreasing(src[cmd])
    /\ Len(src[cmd]) = MaxSrc
    /\ srcVersion = 1
    /\ dest[cmd].rows = src[cmd]


\* C29: an incremental run, of either strategy, only appends: no step of it
\* drops or re-creates the destination table, and after every step the rows
\* the table held before are still its first rows, unchanged and in place;
\* so the rows present when the run resolved its mode are present at every
\* later point of the run.
C29_IncrementalOnlyAppends ==
    /\ [][h.sync.mode = "INCREMENTAL"
            => /\ dest'[table].exists
               /\ dest'[table].cols = dest[table].cols
               /\ Len(dest'[table].rows) >= Len(dest[table].rows)
               /\ SubSeq(dest'[table].rows, 1, Len(dest[table].rows))
                    = dest[table].rows]_vars
    /\ [](h.sync.mode = "INCREMENTAL"
            => /\ h.sync.ddl = <<>>
               /\ h.sync.insBase > 0
               /\ Len(dest[table].rows) >= h.sync.insBase
               /\ Kept = h.probe.d.rows)

\* A date-bucketed incremental run has added rows behind the ones it found.
C29_Witness ==
    /\ Completed
    /\ sync_by_day[table]
    /\ h.sync.mode = "INCREMENTAL"
    /\ h.sync.insBase > 0
    /\ Len(Inserted) > 0
    /\ Kept = h.probe.d.rows


\* C30: a date-bucketed full sync (the destination table absent or empty)
\* of a source nobody writes during the run inserts every source row exactly
\* once: when it has returned the destination holds each row as often as the
\* source does and nothing else, and rows_synced equals the total of the
\* per-day counts of the dates query, which is the number of source rows.
C30_ByDayFullSyncExact ==
    (Completed /\ sync_by_day[table] /\ h.sync.mode = "FULL" /\ Quiet)
    => /\ ~h.probe.d.exists \/ h.probe.d.rows = <<>>
       /\ Len(dest[table].rows) = Len(src[table])
       /\ \A v \in Watermarks(TRUE) :
            Count(dest[table].rows, v) = Count(src[table], v)
       /\ rows_synced = SumCnt(dates_result)
       /\ rows_synced = total_rows
       /\ rows_synced = Len(src[table])

\* A full sync over two days into a table that existed and was empty.
C30_Witness ==
    /\ Completed
    /\ sync_by_day[table]
    /\ h.sync.mode = "FULL"
    /\ h.probe.d.exists
    /\ h.probe.d.rows = <<>>
    /\ Len(dates_result) = 2
    /\ rows_synced = MaxSrc
    /\ dest[table].rows = src[table]


===========================================================================
